---- MODULE Spec2Model ----
(***************************************************************************)
(* Model of dmtest/tvm.py: the segment allocator (Allocator), the linear   *)
(* volume (LinearVolume) and the volume manager (VM).                      *)
(*                                                                         *)
(* A Segment is the record [dev, offset, length]; a device is modelled by  *)
(* its index (device "d0" is 0, "d1" is 1), so the order of the indexes is *)
(* the order of the device names.  A LinearTarget is the tuple             *)
(* <<length, dev, offset>>, the argument order of its constructor.         *)
(***************************************************************************)
EXTENDS Integers, Sequences, FiniteSets, TLC

VARIABLES
    free,       \* Allocator._free_segments
    vols,       \* the LinearVolume objects: _name, _length, _segments, _targets, _allocated
    volumes,    \* VM._volumes: name -> volume object, NoVol when the key is absent
    backing,    \* the extents handed to VM.add_allocation_volume so far
    last        \* the last call: its arguments, the exception it raised, what it returned

vars == <<free, vols, volumes, backing, last>>

-----------------------------------------------------------------------------
(* Bounds *)

\* number of blocks of each backing device
DevSize == 2
\* largest volume length / allocation size a caller asks for
MaxLen == 2
\* longest free list the allocator-only specification builds
MaxPool == 2

Devs == {0, 1}
\* the volume objects the callers construct, and the names they give them
Vols == {"a", "b"}
Names == {"v", "w"}
NoVol == "-"

\* segment_predicate: None, or "the segment is on device i"
NoPred == "None"
Preds == {"None", "dev0", "dev1"}

-----------------------------------------------------------------------------
(* Values *)

Segment(dev, offset, length) == [dev |-> dev, offset |-> offset, length |-> length]

LinearTarget(length, dev, offset) == <<length, dev, offset>>

segment_predicate(p, s) ==
    \/ p = "dev0" /\ s.dev = 0
    \/ p = "dev1" /\ s.dev = 1

RECURSIVE SumLen(_)
SumLen(segs) ==
    IF segs = <<>> THEN 0 ELSE Head(segs).length + SumLen(Tail(segs))

-----------------------------------------------------------------------------
(* _allocate_segment *)

\* mutant: the split leaves the tail in the list but hands out the whole entry
_allocate_segment_nosplit(size, segs) ==
    IF Len(segs) = 0
    THEN [err |-> "SegmentAllocationError", s |-> Segment(0, 0, 0), segs |-> segs]
    ELSE LET s == Head(segs)
             rest == Tail(segs)
         IN  IF s.length > size
             THEN [err |-> "None",
                   s |-> s,
                   segs |-> <<Segment(s.dev, s.offset + size, s.length - size)>> \o rest]
             ELSE [err |-> "None", s |-> s, segs |-> rest]

\* mutant: the split hands out the prefix but leaves the whole entry in the list
_allocate_segment_keepwhole(size, segs) ==
    IF Len(segs) = 0
    THEN [err |-> "SegmentAllocationError", s |-> Segment(0, 0, 0), segs |-> segs]
    ELSE LET s == Head(segs)
             rest == Tail(segs)
         IN  IF s.length > size
             THEN [err |-> "None",
                   s |-> Segment(s.dev, s.offset, size),
                   segs |-> <<s>> \o rest]
             ELSE [err |-> "None", s |-> s, segs |-> rest]

_allocate_segment(size, segs) ==
    IF Len(segs) = 0
    THEN [err |-> "SegmentAllocationError", s |-> Segment(0, 0, 0), segs |-> segs]
    ELSE LET s == Head(segs)
             rest == Tail(segs)
         IN  IF s.length > size
             THEN [err |-> "None",
                   s |-> Segment(s.dev, s.offset, size),
                   segs |-> <<Segment(s.dev, s.offset + size, s.length - size)>> \o rest]
             ELSE [err |-> "None", s |-> s, segs |-> rest]

-----------------------------------------------------------------------------
(* _merge *)

\* mutant: the sort key is the offset alone
KeyLess_offsetonly(a, b) ==
    a.offset < b.offset

\* the sort key (seg.dev, seg.offset), compared as Python compares tuples
KeyLess(a, b) ==
    \/ a.dev < b.dev
    \/ a.dev = b.dev /\ a.offset < b.offset

\* list.sort is stable: x goes after every element whose key is not greater
RECURSIVE SortInsert(_, _)
SortInsert(x, sorted) ==
    IF sorted = <<>> THEN <<x>>
    ELSE IF KeyLess(x, Head(sorted)) THEN <<x>> \o sorted
    ELSE <<Head(sorted)>> \o SortInsert(x, Tail(sorted))

RECURSIVE SortSegs(_)
SortSegs(segs) ==
    IF segs = <<>> THEN <<>>
    ELSE SortInsert(segs[Len(segs)], SortSegs(SubSeq(segs, 1, Len(segs) - 1)))

\* mutant: the adjacency test is off by one block
Adjacent_offbyone(s, n) == (n.dev = s.dev) /\ (n.offset = (s.offset + s.length + 1))

Adjacent(s, n) == (n.dev = s.dev) /\ (n.offset = (s.offset + s.length))

\* mutant: a merged run keeps the length of its first entry
RECURSIVE MergeLoop_drop(_, _, _)
MergeLoop_drop(s, segs, merged) ==
    IF segs = <<>> THEN Append(merged, s)
    ELSE LET n == Head(segs)
         IN  IF Adjacent(s, n)
             THEN MergeLoop_drop(Segment(s.dev, s.offset, s.length), Tail(segs), merged)
             ELSE MergeLoop_drop(n, Tail(segs), Append(merged, s))

\* the while loop of _merge: s is the run being built, segs what is left
RECURSIVE MergeLoop(_, _, _)
MergeLoop(s, segs, merged) ==
    IF segs = <<>> THEN Append(merged, s)
    ELSE LET n == Head(segs)
         IN  IF Adjacent(s, n)
             THEN MergeLoop(Segment(s.dev, s.offset, s.length + n.length), Tail(segs), merged)
             ELSE MergeLoop(n, Tail(segs), Append(merged, s))

\* segs.pop(0) on an empty list raises IndexError
_merge(segs) ==
    LET sorted == SortSegs(segs)
    IN  IF sorted = <<>>
        THEN [err |-> "IndexError", merged |-> <<>>]
        ELSE [err |-> "None", merged |-> MergeLoop(Head(sorted), Tail(sorted), <<>>)]

-----------------------------------------------------------------------------
(* Allocator *)

\* the while loop of allocate_segments; popped collects the entries taken
\* off the candidate list
RECURSIVE AllocLoop(_, _, _, _)
AllocLoop(size, segments, result, popped) ==
    IF size > 0
    THEN LET r == _allocate_segment(size, segments)
         IN  IF r.err /= "None"
             THEN [err |-> r.err, segments |-> segments, result |-> result, popped |-> popped]
             ELSE AllocLoop(size - r.s.length, r.segs, Append(result, r.s),
                            Append(popped, Head(segments)))
    ELSE [err |-> "None", segments |-> segments, result |-> result, popped |-> popped]

\* mutant: the predicate is not applied
allocate_segments_nofilter(fs, size, pred) ==
    LET r == AllocLoop(size, fs, <<>>, <<>>)
    IN  [err |-> r.err,
         result |-> r.result,
         popped |-> r.popped,
         free |-> r.segments]

\* mutant: a failed call puts back what it popped
allocate_segments_rollback(fs, size, pred) ==
    LET segments == IF pred /= NoPred
                    THEN SelectSeq(fs, LAMBDA s : segment_predicate(pred, s))
                    ELSE fs
        r == AllocLoop(size, segments, <<>>, <<>>)
    IN  [err |-> r.err,
         result |-> r.result,
         popped |-> r.popped,
         free |-> IF r.err = "None" THEN r.segments ELSE fs]

\* Without a predicate the candidate list IS self._free_segments, so the
\* pops are made on the free list itself and stay when the call raises.
\* With a predicate the candidate list is a new list, and the free list is
\* only rebound to it on the way out.
allocate_segments(fs, size, pred) ==
    LET segments == IF pred /= NoPred
                    THEN SelectSeq(fs, LAMBDA s : segment_predicate(pred, s))
                    ELSE fs
        r == AllocLoop(size, segments, <<>>, <<>>)
    IN  [err |-> r.err,
         result |-> r.result,
         popped |-> r.popped,
         free |-> IF r.err = "None" THEN r.segments
                  ELSE IF pred /= NoPred THEN fs
                  ELSE r.segments]

\* self._free_segments += segs is done in place before _merge can raise
\* mutant: the pool is rebuilt from the released extents alone
release_segments_forget(fs, segs) ==
    LET all == segs
        m == _merge(all)
    IN  [err |-> m.err,
         free |-> IF m.err = "None" THEN m.merged ELSE SortSegs(all)]

release_segments(fs, segs) ==
    LET all == fs \o segs
        m == _merge(all)
    IN  [err |-> m.err,
         free |-> IF m.err = "None" THEN m.merged ELSE SortSegs(all)]

free_space(fs) == SumLen(fs)

-----------------------------------------------------------------------------
(* Volume, LinearVolume *)

Volume(name, length) ==
    [name |-> name, length |-> length, segments |-> <<>>, targets |-> <<>>,
     allocated |-> FALSE]

size(vol) == SumLen(vol.segments)

\* mutant: device and offset change places
_segs_to_targets_swapped(segs) ==
    [i \in 1..Len(segs) |-> LinearTarget(segs[i].length, segs[i].offset, segs[i].dev)]

_segs_to_targets(segs) ==
    [i \in 1..Len(segs) |-> LinearTarget(segs[i].length, segs[i].dev, segs[i].offset)]

NoCall == [err |-> "None", result |-> <<>>, popped |-> <<>>]

\* mutant: the target length is recorded before the allocator is asked
LinearVolume_resize_eagerlength(vol, fs, new_length, pred) ==
    IF ~vol.allocated
    THEN [err |-> "None", vol |-> [vol EXCEPT !.length = new_length], free |-> fs,
          acall |-> FALSE, asize |-> 0, a |-> NoCall]
    ELSE IF new_length < vol.length
    THEN [err |-> "NotImplementedError", vol |-> vol, free |-> fs,
          acall |-> FALSE, asize |-> 0, a |-> NoCall]
    ELSE LET a == allocate_segments(fs, new_length - vol.length, pred)
         IN  IF a.err /= "None"
             THEN [err |-> a.err, vol |-> [vol EXCEPT !.length = new_length], free |-> a.free,
                   acall |-> TRUE, asize |-> new_length - vol.length, a |-> a]
             ELSE [err |-> "None",
                   vol |-> [vol EXCEPT !.segments = vol.segments \o a.result,
                                       !.targets = vol.targets \o _segs_to_targets(a.result),
                                       !.length = new_length],
                   free |-> a.free,
                   acall |-> TRUE, asize |-> new_length - vol.length, a |-> a]

\* mutant: a shrink returns without doing anything
LinearVolume_resize_silentshrink(vol, fs, new_length, pred) ==
    IF ~vol.allocated
    THEN [err |-> "None", vol |-> [vol EXCEPT !.length = new_length], free |-> fs,
          acall |-> FALSE, asize |-> 0, a |-> NoCall]
    ELSE IF new_length < vol.length
    THEN [err |-> "None", vol |-> vol, free |-> fs,
          acall |-> FALSE, asize |-> 0, a |-> NoCall]
    ELSE LET a == allocate_segments(fs, new_length - vol.length, pred)
         IN  IF a.err /= "None"
             THEN [err |-> a.err, vol |-> vol, free |-> a.free,
                   acall |-> TRUE, asize |-> new_length - vol.length, a |-> a]
             ELSE [err |-> "None",
                   vol |-> [vol EXCEPT !.segments = vol.segments \o a.result,
                                       !.targets = vol.targets \o _segs_to_targets(a.result),
                                       !.length = new_length],
                   free |-> a.free,
                   acall |-> TRUE, asize |-> new_length - vol.length, a |-> a]

\* mutant: the new extents are put in front of the old ones
LinearVolume_resize_prepend(vol, fs, new_length, pred) ==
    IF ~vol.allocated
    THEN [err |-> "None", vol |-> [vol EXCEPT !.length = new_length], free |-> fs,
          acall |-> FALSE, asize |-> 0, a |-> NoCall]
    ELSE IF new_length < vol.length
    THEN [err |-> "NotImplementedError", vol |-> vol, free |-> fs,
          acall |-> FALSE, asize |-> 0, a |-> NoCall]
    ELSE LET a == allocate_segments(fs, new_length - vol.length, pred)
         IN  IF a.err /= "None"
             THEN [err |-> a.err, vol |-> vol, free |-> a.free,
                   acall |-> TRUE, asize |-> new_length - vol.length, a |-> a]
             ELSE [err |-> "None",
                   vol |-> [vol EXCEPT !.segments = a.result \o vol.segments,
                                       !.targets = _segs_to_targets(a.result) \o vol.targets,
                                       !.length = new_length],
                   free |-> a.free,
                   acall |-> TRUE, asize |-> new_length - vol.length, a |-> a]

\* LinearVolume.resize: the volume and the free list after the call
LinearVolume_resize(vol, fs, new_length, pred) ==
    IF ~vol.allocated
    THEN [err |-> "None", vol |-> [vol EXCEPT !.length = new_length], free |-> fs,
          acall |-> FALSE, asize |-> 0, a |-> NoCall]
    ELSE IF new_length < vol.length
    THEN [err |-> "NotImplementedError", vol |-> vol, free |-> fs,
          acall |-> FALSE, asize |-> 0, a |-> NoCall]
    ELSE LET a == allocate_segments(fs, new_length - vol.length, pred)
         IN  IF a.err /= "None"
             THEN [err |-> a.err, vol |-> vol, free |-> a.free,
                   acall |-> TRUE, asize |-> new_length - vol.length, a |-> a]
             ELSE [err |-> "None",
                   vol |-> [vol EXCEPT !.segments = vol.segments \o a.result,
                                       !.targets = vol.targets \o _segs_to_targets(a.result),
                                       !.length = new_length],
                   free |-> a.free,
                   acall |-> TRUE, asize |-> new_length - vol.length, a |-> a]

\* LinearVolume.allocate
LinearVolume_allocate(vol, fs, pred) ==
    LET a == allocate_segments(fs, vol.length, pred)
    IN  IF a.err /= "None"
        THEN [err |-> a.err, vol |-> vol, free |-> a.free, a |-> a]
        ELSE [err |-> "None",
              vol |-> [vol EXCEPT !.segments = a.result,
                                  !.targets = _segs_to_targets(a.result),
                                  !.allocated = TRUE],
              free |-> a.free, a |-> a]

-----------------------------------------------------------------------------
(* VM *)

\* mutant: the name is never looked up
_check_not_exist_never(vs, name) ==
    "None"

_check_not_exist(vs, name) ==
    IF vs[name] /= NoVol THEN "VolumeError" ELSE "None"

_check_exists(vs, name) ==
    IF vs[name] = NoVol THEN "VolumeError" ELSE "None"

\* utils.dev_size: device "d0" has a single block, "d1" has DevSize blocks
dev_size(dev) == IF dev = 0 THEN 1 ELSE DevSize

Overlap(a, b) ==
    /\ a.dev = b.dev
    /\ a.offset < b.offset + b.length
    /\ b.offset < a.offset + a.length

\* what a call that does not reach the allocator leaves in `last`
Call(op, vol, name, arg, err) ==
    [op |-> op, vol |-> vol, name |-> name, arg |-> arg, pred |-> NoPred, err |-> err,
     segs |-> <<>>, acall |-> FALSE, asize |-> 0, result |-> <<>>, popped |-> <<>>,
     value |-> 0, targets |-> <<>>]

\* a call that reached Allocator.allocate_segments(asize, pred), which gave a
AllocCall(op, vol, name, arg, pred, err, asize, a) ==
    [Call(op, vol, name, arg, err)
        EXCEPT !.pred = pred, !.acall = TRUE, !.asize = asize, !.result = a.result, !.popped = a.popped]

Init ==
    /\ free = <<>>
    /\ vols \in {f \in [Vols -> {Volume(n, l) : n \in Names, l \in 0..MaxLen}] :
                    f["a"].name = "v" /\ f["b"].name = "w"}
    /\ volumes = [n \in Names |-> NoVol]
    /\ backing = {}
    /\ last = Call("init", NoVol, "-", 0, "None")

\* VM.add_allocation_volume; length 0 stands for the omitted length.  The
\* callers register extents that lie on the device and that are disjoint
\* from the extents registered before.
add_allocation_volume(dev, offset, length) ==
    LET len == IF length = 0 THEN dev_size(dev) ELSE length
        seg == Segment(dev, offset, len)
        r == release_segments(free, <<seg>>)
    IN  /\ offset + len <= dev_size(dev)
        /\ \A b \in backing : ~Overlap(seg, b)
        /\ free' = r.free
        /\ backing' = backing \cup {seg}
        /\ last' = [Call("add_allocation_volume", NoVol, "-", length, r.err)
                        EXCEPT !.segs = <<seg>>]
        /\ UNCHANGED <<vols, volumes>>

\* VM.add_volume
add_volume(v, pred) ==
    LET vol == vols[v]
        name == vol.name
    IN  IF _check_not_exist(volumes, name) /= "None"
        THEN /\ last' = Call("add_volume", v, name, 0, "VolumeError")
             /\ UNCHANGED <<free, vols, volumes, backing>>
        ELSE LET r == LinearVolume_allocate(vol, free, pred)
             IN  /\ free' = r.free
                 /\ vols' = [vols EXCEPT ![v] = r.vol]
                 /\ volumes' = IF r.err = "None"
                               THEN [volumes EXCEPT ![name] = v]
                               ELSE volumes
                 /\ last' = AllocCall("add_volume", v, name, 0, pred, r.err, vol.length, r.a)
                 /\ UNCHANGED backing

\* VM.remove_volume
remove_volume(name) ==
    IF _check_exists(volumes, name) /= "None"
    THEN /\ last' = Call("remove_volume", NoVol, name, 0, "VolumeError")
         /\ UNCHANGED <<free, vols, volumes, backing>>
    ELSE LET v == volumes[name]
             r == release_segments(free, vols[v].segments)
         IN  /\ free' = r.free
             /\ volumes' = IF r.err = "None"
                           THEN [volumes EXCEPT ![name] = NoVol]
                           ELSE volumes
             /\ last' = [Call("remove_volume", v, name, 0, r.err)
                            EXCEPT !.segs = vols[v].segments]
             /\ UNCHANGED <<vols, backing>>

\* VM.resize: the call passes `segment_preicate`, a name that is bound
\* nowhere, so evaluating the arguments raises NameError before
\* LinearVolume.resize is entered; segment_predicate itself is never read
VM_resize(name, new_size, pred) ==
    /\ last' = Call("VM.resize", volumes[name], name, new_size,
                    IF _check_exists(volumes, name) /= "None"
                    THEN "VolumeError" ELSE "NameError")
    /\ UNCHANGED <<free, vols, volumes, backing>>

\* VM.size: no existence check, the dict lookup raises KeyError
VM_size(vs, vl, name) ==
    IF vs[name] = NoVol
    THEN [err |-> "KeyError", value |-> 0]
    ELSE [err |-> "None", value |-> size(vl[vs[name]])]

\* VM.segments
VM_segments(vs, vl, name) ==
    IF _check_exists(vs, name) /= "None"
    THEN [err |-> "VolumeError", result |-> <<>>]
    ELSE [err |-> "None", result |-> vl[vs[name]].segments]

\* VM.targets
VM_targets(vs, vl, name) ==
    IF _check_exists(vs, name) /= "None"
    THEN [err |-> "VolumeError", targets |-> <<>>]
    ELSE [err |-> "None", targets |-> vl[vs[name]].targets]

\* a call of VM.size
size_call(name) ==
    LET r == VM_size(volumes, vols, name)
    IN  /\ last' = [Call("VM.size", volumes[name], name, 0, r.err) EXCEPT !.value = r.value]
        /\ UNCHANGED <<free, vols, volumes, backing>>

\* a call of VM.segments
segments_call(name) ==
    LET r == VM_segments(volumes, vols, name)
    IN  /\ last' = [Call("VM.segments", volumes[name], name, 0, r.err) EXCEPT !.result = r.result]
        /\ UNCHANGED <<free, vols, volumes, backing>>

\* a call of VM.targets
targets_call(name) ==
    LET r == VM_targets(volumes, vols, name)
    IN  /\ last' = [Call("VM.targets", volumes[name], name, 0, r.err) EXCEPT !.targets = r.targets]
        /\ UNCHANGED <<free, vols, volumes, backing>>

\* LinearVolume.resize called on a volume object with the manager's allocator
Volume_resize(v, new_length, pred) ==
    LET r == LinearVolume_resize(vols[v], free, new_length, pred)
    IN  /\ free' = r.free
        /\ vols' = [vols EXCEPT ![v] = r.vol]
        /\ last' = IF r.acall
                   THEN AllocCall("LinearVolume.resize", v, vols[v].name, new_length, pred,
                                  r.err, r.asize, r.a)
                   ELSE Call("LinearVolume.resize", v, vols[v].name, new_length, r.err)
        /\ UNCHANGED <<volumes, backing>>

\* LinearVolume.allocate called on a volume object that was not allocated yet
Volume_allocate(v, pred) ==
    LET r == LinearVolume_allocate(vols[v], free, pred)
    IN  /\ ~vols[v].allocated
        /\ free' = r.free
        /\ vols' = [vols EXCEPT ![v] = r.vol]
        /\ last' = AllocCall("LinearVolume.allocate", v, vols[v].name, 0, pred, r.err,
                             vols[v].length, r.a)
        /\ UNCHANGED <<volumes, backing>>

\* Allocator.allocate_segments called on the manager's allocator; the caller
\* keeps the extents
Allocator_allocate_segments(sz, pred) ==
    LET a == allocate_segments(free, sz, pred)
    IN  /\ free' = a.free
        /\ last' = AllocCall("allocate_segments", NoVol, "-", sz, pred, a.err, sz, a)
        /\ UNCHANGED <<vols, volumes, backing>>

\* Allocator.release_segments
Allocator_release_segments(segs) ==
    LET r == release_segments(free, segs)
    IN  /\ free' = r.free
        /\ last' = [Call("release_segments", NoVol, "-", 0, r.err)
                        EXCEPT !.segs = segs]
        /\ UNCHANGED <<vols, volumes, backing>>

Next ==
    \/ \E d \in Devs, o \in 0..(DevSize - 1), l \in 0..DevSize : add_allocation_volume(d, o, l)
    \/ \E v \in Vols, p \in Preds : add_volume(v, p)
    \/ \E n \in Names : remove_volume(n)
    \/ \E n \in Names, l \in 0..MaxLen : VM_resize(n, l, NoPred)
    \/ \E n \in Names : size_call(n)
    \/ \E n \in Names : segments_call(n)
    \/ \E n \in Names : targets_call(n)
    \/ \E v \in Vols, l \in 0..MaxLen, p \in Preds : Volume_resize(v, l, p)
    \/ Allocator_release_segments(<<>>)

Spec == Init /\ [][Next]_vars

-----------------------------------------------------------------------------
(* Two volume objects that carry the same name *)

DupInit ==
    /\ free = <<>>
    /\ vols \in [Vols -> {Volume("v", l) : l \in 0..MaxLen}]
    /\ volumes = [n \in Names |-> NoVol]
    /\ backing = {}
    /\ last = Call("init", NoVol, "-", 0, "None")

DupNext ==
    \/ \E d \in Devs, o \in 0..(DevSize - 1), l \in 0..DevSize : add_allocation_volume(d, o, l)
    \/ \E v \in Vols, p \in Preds : add_volume(v, p)
    \/ \E n \in Names : remove_volume(n)

DupSpec == DupInit /\ [][DupNext]_vars

-----------------------------------------------------------------------------
(* The manager used without predicates, as long as no allocation fails *)

CleanNext ==
    \/ \E d \in Devs, o \in 0..(DevSize - 1), l \in 0..DevSize : add_allocation_volume(d, o, l)
    \/ \E v \in Vols :
          /\ add_volume(v, NoPred)
          /\ last'.err /= "SegmentAllocationError"
    \/ \E n \in Names : remove_volume(n)
    \/ \E n \in Names, l \in 0..MaxLen : VM_resize(n, l, NoPred)
    \/ \E v \in Vols, l \in 0..MaxLen :
          /\ Volume_resize(v, l, NoPred)
          /\ last'.err /= "SegmentAllocationError"

CleanSpec == Init /\ [][CleanNext]_vars

-----------------------------------------------------------------------------
(* The allocator on its own: any caller, any extents released *)

\* the extents a caller may hand to release_segments
Extents ==
    {Segment(d, o, l) : d \in Devs, o \in 0..(DevSize - 1), l \in 1..DevSize}

ExtentSeqs ==
    {<<>>} \cup {<<x>> : x \in Extents} \cup {<<x, y>> : x \in Extents, y \in Extents}

AllocInit ==
    /\ Init
    /\ \A v \in Vols : vols[v].length = 0

AllocNext ==
    \/ \E sz \in 1..MaxLen, p \in Preds : Allocator_allocate_segments(sz, p)
    \/ \E segs \in ExtentSeqs :
          /\ Len(free) + Len(segs) <= MaxPool
          /\ Allocator_release_segments(segs)

AllocSpec == AllocInit /\ [][AllocNext]_vars

-----------------------------------------------------------------------------
(* One volume used without the manager; its length is any integer the *)
(* constructor and resize accept, a negative one included             *)

VolLengths == -1..MaxLen

VolInit ==
    /\ free = <<>>
    /\ vols \in {f \in [Vols -> {Volume(n, l) : n \in Names, l \in VolLengths}] :
                    f["a"].name = "v" /\ f["b"] = Volume("w", 0)}
    /\ volumes = [n \in Names |-> NoVol]
    /\ backing = {}
    /\ last = Call("init", NoVol, "-", 0, "None")

VolNext ==
    \/ \E d \in Devs, o \in 0..(DevSize - 1), l \in 0..DevSize : add_allocation_volume(d, o, l)
    \/ \E p \in Preds : Volume_allocate("a", p)
    \/ \E l \in VolLengths, p \in Preds : Volume_resize("a", l, p)

VolSpec == VolInit /\ [][VolNext]_vars

-----------------------------------------------------------------------------
(* One volume built with a non-negative length; resize is given any length *)

NonNegInit ==
    /\ VolInit
    /\ vols["a"].length >= 0

NonNegSpec == NonNegInit /\ [][VolNext]_vars

-----------------------------------------------------------------------------
(* Properties *)

SubRange(r, e) ==
    /\ r.dev = e.dev
    /\ e.offset <= r.offset
    /\ r.offset + r.length <= e.offset + e.length

\* the entries of fs a call with predicate p may take
Eligible(fs, p) ==
    IF p = NoPred THEN fs ELSE SelectSeq(fs, LAMBDA s : segment_predicate(p, s))

\* the entries of fs a call with predicate p may not take
NotEligible(fs, p) ==
    SelectSeq(fs, LAMBDA s : ~segment_predicate(p, s))

Count(x, segs) == Cardinality({i \in 1..Len(segs) : segs[i] = x})

SameMultiset(a, b) ==
    \A x \in {a[i] : i \in 1..Len(a)} \cup {b[i] : i \in 1..Len(b)} :
        Count(x, a) = Count(x, b)

Touching(a, b) ==
    /\ a.dev = b.dev
    /\ a.offset + a.length = b.offset

IsPrefix(a, b) ==
    /\ Len(a) <= Len(b)
    /\ SubSeq(b, 1, Len(a)) = a

PredicateFrame ==
    [][ (last'.acall /\ last'.pred /= NoPred) =>
            NotEligible(free', last'.pred) = NotEligible(free, last'.pred) ]_vars

\* C3.  Growing through the manager: VM.resize of a registered, allocated
\* volume of size C to new_size > C, with new_size - C <= free_space(),
\* succeeds, the volume then has size new_size and free_space() has gone
\* down by exactly new_size - C.
GrowThroughManager ==
    [][ (/\ last'.op = "VM.resize"
         /\ volumes[last'.name] /= NoVol
         /\ vols[volumes[last'.name]].allocated
         /\ last'.arg > size(vols[volumes[last'.name]])
         /\ last'.arg - size(vols[volumes[last'.name]]) <= free_space(free)) =>
            /\ last'.err = "None"
            /\ size(vols'[volumes[last'.name]]) = last'.arg
            /\ free_space(free') =
                    free_space(free) - (last'.arg - size(vols[volumes[last'.name]])) ]_vars

\* C4.  No phantom space: VM.remove_volume of a registered volume takes the
\* name out of the registry, every query of the name then fails with the
\* unknown-name error (VolumeError), and free_space() has grown by exactly
\* the size() the volume had.
NoPhantomSpace ==
    [][ (last'.op = "remove_volume" /\ volumes[last'.name] /= NoVol) =>
            /\ volumes'[last'.name] = NoVol
            /\ VM_size(volumes', vols', last'.name).err = "VolumeError"
            /\ VM_segments(volumes', vols', last'.name).err = "VolumeError"
            /\ VM_targets(volumes', vols', last'.name).err = "VolumeError"
            /\ free_space(free') =
                    free_space(free) + size(vols[volumes[last'.name]]) ]_vars

\* C5.  Release conservation: release_segments(X) with X not empty completes,
\* and free_space() after the call is free_space() before it plus the total
\* length of X.
ReleaseConservation ==
    [][ (last'.op = "release_segments" /\ last'.segs /= <<>>) =>
            /\ last'.err = "None"
            /\ free_space(free') = free_space(free) + SumLen(last'.segs) ]_vars

\* two extents were released and the merge made one entry of them
ReleaseWitness ==
    /\ last.op = "release_segments"
    /\ Len(last.segs) = 2
    /\ last.err = "None"
    /\ Len(free) = 1
    /\ free_space(free) = SumLen(last.segs)

\* C6.  Full coalescing: when only pairwise-disjoint backing extents are
\* registered and only extents owned by a volume are released, the free pool
\* never holds two overlapping entries nor two entries adjacent on the same
\* device; registering two adjacent extents of one device, in either order,
\* leaves their union as a single entry.
FullCoalescing ==
    /\ \A i, j \in 1..Len(free) :
          i /= j => ~Overlap(free[i], free[j]) /\ ~Touching(free[i], free[j])
    /\ (/\ backing = {Segment(1, 0, 1), Segment(1, 1, 1)}
        /\ free_space(free) = 2) => free = <<Segment(1, 0, 2)>>

\* two adjacent extents of device 1 were registered and are one free entry
CoalescingWitness ==
    /\ last.op = "add_allocation_volume"
    /\ backing = {Segment(1, 0, 1), Segment(1, 1, 1)}
    /\ free = <<Segment(1, 0, 2)>>

\* C7.  Empty release is a no-op: release_segments([]) completes without an
\* error on every free pool, the empty one included, and leaves free_space()
\* and the multiset of free extents as they were.
EmptyReleaseNoOp ==
    [][ (last'.op = "release_segments" /\ last'.segs = <<>>) =>
            /\ last'.err = "None"
            /\ free_space(free') = free_space(free)
            /\ SameMultiset(free', free) ]_vars

\* C8.  Out of space is the only allocation failure: allocate_segments(size,
\* predicate) with size > 0 fails exactly when size is more than the total
\* length of the entries the predicate admits, and then with
\* SegmentAllocationError.
OutOfSpaceOnly ==
    [][ (last'.acall /\ last'.asize > 0) =>
            /\ (last'.err /= "None") <=>
                    (last'.asize > SumLen(Eligible(free, last'.pred)))
            /\ last'.err \in {"None", "SegmentAllocationError"} ]_vars

\* a request under a predicate failed although the pool as a whole had room
OutOfSpaceWitness ==
    /\ last.acall
    /\ last.pred /= NoPred
    /\ last.err = "SegmentAllocationError"
    /\ last.popped /= <<>>
    /\ free_space(free) >= last.asize

\* C9 as stated.  No rollback: when allocate_segments fails, with or without
\* a predicate, the entries popped before the failure are not put back, so
\* free_space() has gone down by their total length.
NoRollback ==
    [][ (last'.acall /\ last'.err = "SegmentAllocationError") =>
            free_space(free') = free_space(free) - SumLen(last'.popped) ]_vars

\* C9 as amended.  When allocate_segments without a predicate fails, the
\* entries popped before the failure are not put back: the free pool is left
\* empty and free_space() has gone down by their total length.  When a
\* predicate was given, a failed call leaves the free pool as it was.
NoRollbackWithoutPredicate ==
    [][ (last'.acall /\ last'.err = "SegmentAllocationError") =>
            IF last'.pred = NoPred
            THEN /\ free' = <<>>
                 /\ free_space(free') = free_space(free) - SumLen(last'.popped)
            ELSE free' = free ]_vars

\* a request without a predicate failed after it had popped entries
NoRollbackWitness ==
    /\ last.acall
    /\ last.pred = NoPred
    /\ last.err = "SegmentAllocationError"
    /\ last.popped /= <<>>
    /\ free = <<>>

\* C10 as stated.  Growth is append-only: when LinearVolume.resize of an
\* allocated volume to a length above its size succeeds, the extent list and
\* the target list it had are prefixes of the new lists, and the appended
\* extents sum to the new length minus the old size.
GrowthAppendOnly ==
    [][ (/\ last'.op = "LinearVolume.resize"
         /\ vols[last'.vol].allocated
         /\ last'.arg > size(vols[last'.vol])
         /\ last'.err = "None") =>
            LET old == vols[last'.vol]
                new == vols'[last'.vol]
            IN  /\ IsPrefix(old.segments, new.segments)
                /\ IsPrefix(old.targets, new.targets)
                /\ SumLen(SubSeq(new.segments, Len(old.segments) + 1, Len(new.segments)))
                        = last'.arg - size(old) ]_vars

\* C10 as amended.  The same, for an allocated volume whose recorded target
\* length equals its size when resize is called.
GrowthAppendOnlyAtRest ==
    [][ (/\ last'.op = "LinearVolume.resize"
         /\ vols[last'.vol].allocated
         /\ vols[last'.vol].length = size(vols[last'.vol])
         /\ last'.arg > size(vols[last'.vol])
         /\ last'.err = "None") =>
            LET old == vols[last'.vol]
                new == vols'[last'.vol]
            IN  /\ IsPrefix(old.segments, new.segments)
                /\ IsPrefix(old.targets, new.targets)
                /\ SumLen(SubSeq(new.segments, Len(old.segments) + 1, Len(new.segments)))
                        = last'.arg - size(old) ]_vars

\* a volume that owned an extent was grown by another one
GrowthWitness ==
    /\ last.op = "LinearVolume.resize"
    /\ last.err = "None"
    /\ last.result /= <<>>
    /\ Len(vols[last.vol].segments) > Len(last.result)
    /\ vols[last.vol].length = size(vols[last.vol])


\* C11 as stated.  Shrink is rejected: LinearVolume.resize of an allocated
\* volume to a length below its size fails with the not-supported error,
\* does not call the allocator, and leaves the volume's extents, targets and
\* target length and the free pool as they were.
ShrinkRejected ==
    [][ (/\ last'.op = "LinearVolume.resize"
         /\ vols[last'.vol].allocated
         /\ last'.arg < size(vols[last'.vol])) =>
            /\ last'.err = "NotImplementedError"
            /\ ~last'.acall
            /\ vols' = vols
            /\ free' = free ]_vars

\* C11 as amended.  The same, for an allocated volume whose recorded target
\* length equals its size when resize is called.
ShrinkRejectedAtRest ==
    [][ (/\ last'.op = "LinearVolume.resize"
         /\ vols[last'.vol].allocated
         /\ vols[last'.vol].length = size(vols[last'.vol])
         /\ last'.arg < size(vols[last'.vol])) =>
            /\ last'.err = "NotImplementedError"
            /\ ~last'.acall
            /\ vols' = vols
            /\ free' = free ]_vars

\* a volume that owns extents was asked to shrink and the call was refused
ShrinkWitness ==
    /\ last.op = "LinearVolume.resize"
    /\ last.err = "NotImplementedError"
    /\ vols[last.vol].allocated
    /\ vols[last.vol].segments /= <<>>
    /\ vols[last.vol].length = size(vols[last.vol])
    /\ last.arg < size(vols[last.vol])


\* C12.  Unknown names always error: remove_volume, resize, size, segments
\* and targets called on the VM with a name that is not registered fail with
\* VolumeError, and the registry and the free pool are unchanged.
UnknownNameVolumeError ==
    [][ (/\ last'.op \in {"remove_volume", "VM.resize", "VM.size", "VM.segments", "VM.targets"}
         /\ volumes[last'.name] = NoVol) =>
            /\ last'.err = "VolumeError"
            /\ volumes' = volumes
            /\ free' = free ]_vars

\* C12 without VM.size: the four calls that do check the name.
UnknownNameCheckedCalls ==
    [][ (/\ last'.op \in {"remove_volume", "VM.resize", "VM.segments", "VM.targets"}
         /\ volumes[last'.name] = NoVol) =>
            /\ last'.err = "VolumeError"
            /\ volumes' = volumes
            /\ free' = free ]_vars


\* C13.  Duplicate names are rejected before any space is touched: add_volume
\* of a volume whose name is registered fails with VolumeError, makes no
\* allocation, and leaves the free pool, the registered volume, the passed
\* volume and the registry as they were.
DuplicateRejected ==
    [][ (/\ last'.op = "add_volume"
         /\ volumes[vols[last'.vol].name] /= NoVol) =>
            /\ last'.err = "VolumeError"
            /\ ~last'.acall
            /\ free' = free
            /\ vols' = vols
            /\ volumes' = volumes ]_vars

\* a second volume object with a registered name was passed while there was
\* free space it could have taken
DuplicateWitness ==
    /\ last.op = "add_volume"
    /\ last.err = "VolumeError"
    /\ volumes[last.name] /= NoVol
    /\ volumes[last.name] /= last.vol
    /\ vols[last.vol].length > 0
    /\ free_space(free) >= vols[last.vol].length


\* C14 as stated.  Target length equals size at rest: every allocated volume
\* that was created with a non-negative target length has a target length
\* equal to its size, after a failed resize too.  (Every volume of
\* NonNegSpec is created with a non-negative target length.)
TargetLengthIsSize ==
    \A v \in Vols : vols[v].allocated => vols[v].length = size(vols[v])

\* C14 as amended.  A volume whose target length is non-negative when it is
\* allocated leaves allocate with a target length equal to its size, and an
\* allocated volume whose target length equals its size keeps that through
\* every call, a failed resize included.
TargetLengthKept ==
    [][ \A v \in Vols :
          /\ (~vols[v].allocated /\ vols'[v].allocated /\ vols[v].length >= 0) =>
                 vols'[v].length = size(vols'[v])
          /\ (vols[v].allocated /\ vols[v].length = size(vols[v])) =>
                 (vols'[v].allocated /\ vols'[v].length = size(vols'[v])) ]_vars

\* a volume that owns extents asked for more than the pool had: the resize
\* failed and the target length is still the size
TargetLengthWitness ==
    /\ last.op = "LinearVolume.resize"
    /\ last.err = "SegmentAllocationError"
    /\ last.arg > size(vols[last.vol])
    /\ vols[last.vol].allocated
    /\ vols[last.vol].segments /= <<>>
    /\ vols[last.vol].length = size(vols[last.vol])


\* the blocks an extent covers
Blocks(s) == {<<s.dev, b>> : b \in s.offset..(s.offset + s.length - 1)}

\* the volume objects the registry holds
Registered == {volumes[n] : n \in Names} \ {NoVol}

\* C15.  No double allocation: with disjoint registrations, the extents held
\* by the registered volumes are pairwise non-overlapping, and none of them
\* overlaps an extent of the free pool.
NoDoubleAllocation ==
    /\ \A v \in Registered, w \in Registered :
          \A i \in DOMAIN vols[v].segments, j \in DOMAIN vols[w].segments :
              (v /= w \/ i /= j) =>
                  Blocks(vols[v].segments[i]) \cap Blocks(vols[w].segments[j]) = {}
    /\ \A v \in Registered :
          \A i \in DOMAIN vols[v].segments, k \in DOMAIN free :
              Blocks(vols[v].segments[i]) \cap Blocks(free[k]) = {}

\* two registered volumes that own blocks, one of them a prefix split off
\* an entry whose tail is still free
NoDoubleAllocationWitness ==
    /\ Cardinality(Registered) = 2
    /\ \A v \in Registered : size(vols[v]) > 0
    /\ \E v \in Registered :
          \E i \in DOMAIN vols[v].segments, k \in DOMAIN free :
              Touching(vols[v].segments[i], free[k])


\* C19.  Targets mirror extents: in every state, every volume has as many
\* targets as extents, and its i-th target is (length, device, offset) of
\* its i-th extent.
TargetsMirrorExtents ==
    \A v \in Vols :
        /\ Len(vols[v].targets) = Len(vols[v].segments)
        /\ \A i \in DOMAIN vols[v].segments :
              /\ Len(vols[v].targets[i]) = 3
              /\ vols[v].targets[i][1] = vols[v].segments[i].length
              /\ vols[v].targets[i][2] = vols[v].segments[i].dev
              /\ vols[v].targets[i][3] = vols[v].segments[i].offset

\* a volume grew onto a second extent, on the other device
TargetsWitness ==
    /\ last.op = "LinearVolume.resize"
    /\ last.err = "None"
    /\ last.acall
    /\ last.result /= <<>>
    /\ Len(vols[last.vol].segments) >= 2
    /\ vols[last.vol].segments[1].dev /= vols[last.vol].segments[2].dev


\* strictly ascending by device, then by offset
Ascending(segs) ==
    \A i \in 1..(Len(segs) - 1) :
        \/ segs[i].dev < segs[i + 1].dev
        \/ segs[i].dev = segs[i + 1].dev /\ segs[i].offset < segs[i + 1].offset

RECURSIVE BackingTotal(_)
BackingTotal(S) ==
    IF S = {} THEN 0
    ELSE LET x == CHOOSE y \in S : TRUE
         IN  x.length + BackingTotal(S \ {x})

\* the sum of size() over a set of volume objects
RECURSIVE SizeTotal(_, _)
SizeTotal(vl, S) ==
    IF S = {} THEN 0
    ELSE LET x == CHOOSE y \in S : TRUE
         IN  SumLen(vl[x].segments) + SizeTotal(vl, S \ {x})

\* C16 as stated.  Global space conservation: with no predicate used and no
\* allocation failed, free_space() plus the sum of size() over the
\* registered volumes equals the total length of the backing extents
\* registered so far.
SpaceConservation ==
    SumLen(free) + SizeTotal(vols, Registered) = BackingTotal(backing)

\* C16 as amended.  The same, counted call by call: the two sides are equal
\* at the start, and every call other than a resize of an allocated volume
\* object that is not registered changes both sides by the same amount.
SpaceConservationRegistered ==
    /\ SumLen(free) + SizeTotal(vols, Registered) = BackingTotal(backing)
    /\ [][ ~(/\ last'.op = "LinearVolume.resize"
             /\ vols[last'.vol].allocated
             /\ last'.vol \notin Registered) =>
              (SumLen(free') + SizeTotal(vols', {volumes'[n] : n \in Names} \ {NoVol}))
                    - BackingTotal(backing')
                = (SumLen(free) + SizeTotal(vols, Registered)) - BackingTotal(backing) ]_vars

\* a registered volume grew while another one was registered and space was left
SpaceConservationWitness ==
    /\ last.op = "LinearVolume.resize"
    /\ last.err = "None"
    /\ last.acall
    /\ last.result /= <<>>
    /\ last.vol \in Registered
    /\ Cardinality(Registered) = 2
    /\ free /= <<>>
    /\ SumLen(free) + SizeTotal(vols, Registered) = BackingTotal(backing)


\* the free pool as it was before the allocation recorded in c, rebuilt
\* from the pool fs the allocation left: the entries it popped go back in
\* front, in place of the remainder of a split if there was one
PoolBefore(c, fs) ==
    IF SumLen(c.popped) > SumLen(c.result)
    THEN c.popped \o Tail(fs)
    ELSE c.popped \o fs

\* PoolBefore is the pool before a successful add_volume without predicate
PoolBeforeExact ==
    [][ (/\ last'.op = "add_volume"
         /\ last'.err = "None"
         /\ last'.acall
         /\ last'.pred = NoPred) => PoolBefore(last', free') = free ]_vars

\* C17.  Add/remove round trip: a successful add_volume without a predicate
\* immediately followed by remove_volume of that name leaves the free pool
\* with exactly the entries, in the order, it had before the add, and the
\* name unregistered as it was before the add.
RoundTrip ==
    [][ (/\ last.op = "add_volume"
         /\ last.err = "None"
         /\ last.acall
         /\ last.pred = NoPred
         /\ last'.op = "remove_volume"
         /\ last'.name = last.name) =>
            /\ free' = PoolBefore(last, free)
            /\ volumes' = [volumes EXCEPT ![last.name] = NoVol] ]_vars

\* C17 where the volume got at least one extent or the pool is not empty
RoundTripNonEmpty ==
    [][ (/\ last.op = "add_volume"
         /\ last.err = "None"
         /\ last.acall
         /\ last.pred = NoPred
         /\ (vols[last.vol].segments /= <<>> \/ free /= <<>>)
         /\ last'.op = "remove_volume"
         /\ last'.name = last.name) =>
            /\ last'.err = "None"
            /\ free' = PoolBefore(last, free)
            /\ volumes' = [volumes EXCEPT ![last.name] = NoVol] ]_vars

====
